---- MODULE Spec2Model ----
(***************************************************************************)
(* Content discovery pipeline of the forum front end: the thread list page *)
(* (ThreadsListPage), its URL decoding, its fetch strategies and the way   *)
(* responses of overlapping requests are written to the visible results.   *)
(*                                                                         *)
(* Strings are sequences of one-character strings.  Thread ids are the     *)
(* one-character strings "1", "2".  A query parameter that is not present  *)
(* is the value Absent.                                                    *)
(***************************************************************************)
EXTENDS Integers, Sequences, FiniteSets, TLC

\* ------------------------------------------------------------------ bounds
MaxCalls == 3          \* resolves issued in one behaviour
MaxTimers == 1         \* pending setTimeout callbacks of the tag filter
BigTotal == 45         \* the largest total count a backend answer reports
MaxDraft == 2          \* characters of a tag draft
MaxTags == 2           \* tags committed in one composer
MaxNameLen == 7        \* characters of a name that is given a color

\* --------------------------------------------------------- program constants
PAGE_SIZE == 20

\* ------------------------------------------------------------ string helpers
Absent == <<"<absent>">>
NoTotal == -1                      \* total === null
NoError == <<"<null>">>            \* error === null
NonArrayBody == <<"{}">>           \* a JSON body that is an object, not an array

RECURSIVE TrimStart(_)
TrimStart(s) == IF s # <<>> /\ Head(s) = " " THEN TrimStart(Tail(s)) ELSE s

RECURSIVE TrimEnd(_)
TrimEnd(s) ==
    IF s # <<>> /\ s[Len(s)] = " " THEN TrimEnd(SubSeq(s, 1, Len(s) - 1)) ELSE s

Trim(s) == TrimEnd(TrimStart(s))

RECURSIVE Join(_, _)
Join(parts, sep) ==
    IF parts = <<>> THEN <<>>
    ELSE IF Len(parts) = 1 THEN parts[1]
    ELSE parts[1] \o sep \o Join(Tail(parts), sep)

\* String.prototype.split on a one-character separator: "a,,b" gives
\* <<"a", "", "b">> and the empty string gives one empty entry.
RECURSIVE SplitAcc(_, _, _)
SplitAcc(s, sep, cur) ==
    IF s = <<>> THEN <<cur>>
    ELSE IF Head(s) = sep THEN <<cur>> \o SplitAcc(Tail(s), sep, <<>>)
    ELSE SplitAcc(Tail(s), sep, Append(cur, Head(s)))

Split(s, sep) == SplitAcc(s, sep, <<>>)

RECURSIVE MapTrim(_)
MapTrim(parts) ==
    IF parts = <<>> THEN <<>> ELSE <<Trim(Head(parts))>> \o MapTrim(Tail(parts))

Includes(seq, x) == \E i \in 1..Len(seq) : seq[i] = x

RECURSIVE Without(_, _)
Without(seq, x) ==
    IF seq = <<>> THEN <<>>
    ELSE IF Head(seq) = x THEN Without(Tail(seq), x)
    ELSE <<Head(seq)>> \o Without(Tail(seq), x)

\* Math.ceil(total / PAGE_SIZE) for total >= 0
PageCount(t) == (t + PAGE_SIZE - 1) \div PAGE_SIZE

\* --------------------------------------------------- percent encoding of URLs
\* A raw query value is a sequence of tokens: plain characters, "+" and the
\* escapes "%20", "%2C", "%23", "%2B".
EncodeChar(c) ==
    CASE c = " " -> "%20"
      [] c = "," -> "%2C"
      [] c = "#" -> "%23"
      [] c = "+" -> "%2B"
      [] OTHER -> c

DecodeToken(t) ==
    CASE t = "%20" -> " "
      [] t = "+" -> " "
      [] t = "%2C" -> ","
      [] t = "%23" -> "#"
      [] t = "%2B" -> "+"
      [] OTHER -> t

RECURSIVE encodeURIComponent(_)
encodeURIComponent(s) ==
    IF s = <<>> THEN <<>> ELSE <<EncodeChar(Head(s))>> \o encodeURIComponent(Tail(s))

RECURSIVE PercentDecode(_)
PercentDecode(raw) ==
    IF raw = <<>> THEN <<>> ELSE <<DecodeToken(Head(raw))>> \o PercentDecode(Tail(raw))

\* URLSearchParams.get(name) || '' on a query string held as a record of raw
\* values
ParamOrEmpty(raw) == IF raw = Absent THEN <<>> ELSE PercentDecode(raw)


\* ------------------------------------------------------------ input domains
Keywords == { <<>>, <<" ">>, <<"e">> }
TagNames == { <<"a">> }
CategoryIds == { <<"3">> }
ThreadIds == { "1", "2" }
ItemLists == { <<>>, <<"1">>, <<"2", "1">> }

\* what the backend can answer with: a page of items and the total it reports
Answers ==
    { [items |-> <<>>, count |-> 0],
      [items |-> <<"1">>, count |-> BigTotal],
      [items |-> <<"2", "1">>, count |-> BigTotal] }

\* location.search values the router can hand to the page
NoUrl == [q |-> <<"<none>">>, tag |-> Absent, category |-> Absent, page |-> Absent]
Url(qv, tagv, catv, pagev) == [q |-> qv, tag |-> tagv, category |-> catv, page |-> pagev]
Urls ==
    { Url(Absent, Absent, Absent, Absent),
      Url(<<"e">>, <<"a">>, <<"3">>, Absent) }

\* tags shown on the card of a thread (thread.tags_flat)
ThreadTags(id) == IF id = "1" THEN <<"a">> ELSE <<>>

\* kinds of answer of an HTTP call
\*   neterr   fetch rejects            badjson  res.json() rejects
\*   http     non-2xx with JSON body   paged    2xx {results, count}
\*   array    2xx bare array           object   2xx JSON object of another shape
FailKinds == { "neterr", "badjson", "http" }

ErrorMessage(kind) ==
    CASE kind = "neterr" -> <<"Failed to fetch">>
      [] kind = "badjson" -> <<"Unexpected token">>
      [] kind = "http" -> <<"Failed to load threads">>
      [] OTHER -> <<"TypeError">>

\* ------------------------------------------------------------------- state
VARIABLES
    q, tags, category,          \* filter inputs of ThreadsListPage
    threads, total, page,       \* visible results
    error, loading, isSearching,
    url,                        \* location.search
    calls,                      \* every resolve issued, in issue order
    timers,                     \* pending setTimeout callbacks of the tag filter
    lastAnswer,                 \* the answer handled by the last step, if any
    composer,                   \* the tag composers of TagInput and the edit modal
    swatch,                     \* the colors last rendered for a name
    backend                     \* the answers of a backend that does not change

vars == << q, tags, category, threads, total, page, error, loading,
           isSearching, url, calls, timers, lastAnswer,
           composer, swatch, backend >>

\* state of the components other than the thread list and of its backend
widgetVars == << composer, swatch, backend >>

\* the discovery state the page holds in its useState cells
FilterState == [keyword |-> q, tags |-> tags, category |-> category, page |-> page]

\* ------------------------------------------------------------ URL decoding
DecodeTags(u) ==
    LET tagParam == ParamOrEmpty(u.tag)
    IN  IF tagParam # <<>> THEN MapTrim(Split(tagParam, ",")) ELSE <<>>

DecodeCategory(u) == ParamOrEmpty(u.category)

DecodeKeyword(u) == ParamOrEmpty(u.q)

\* the state the page takes from a query string: the effect reads tag,
\* category and q, and never reads page
DecodeState(u) ==
    [keyword |-> DecodeKeyword(u), tags |-> DecodeTags(u),
     category |-> DecodeCategory(u), page |-> 1]

Digits == <<"0", "1", "2", "3", "4", "5", "6", "7", "8", "9">>

RECURSIVE PageString(_)
PageString(n) ==
    IF n < 10 THEN <<Digits[n + 1]>>
    ELSE PageString(n \div 10) \o <<Digits[(n % 10) + 1]>>

\* encode of the codec contract: a field equal to its default is omitted
Encode(s) ==
    Url(IF s.keyword = <<>> THEN Absent ELSE encodeURIComponent(s.keyword),
        IF s.tags = <<>> THEN Absent ELSE encodeURIComponent(Join(s.tags, <<",">>)),
        IF s.category = <<>> THEN Absent ELSE encodeURIComponent(s.category),
        IF s.page = 1 THEN Absent ELSE PageString(s.page))

\* ------------------------------------------------------- request building
Request(ep, pg, tagv, catv, idsv, qv) ==
    [endpoint |-> ep, page |-> pg, tag |-> tagv, category |-> catv,
     ids |-> idsv, q |-> qv]

TagParam(tagsToUse) ==
    IF Len(tagsToUse) > 0 THEN Join(tagsToUse, <<",">>) ELSE Absent

CategoryParam(categoryToUse) ==
    IF Trim(categoryToUse) # <<>> THEN Trim(categoryToUse) ELSE Absent

ListRequest(tagsToUse, categoryToUse, targetPage) ==
    Request("threads", targetPage, TagParam(tagsToUse),
            CategoryParam(categoryToUse), Absent, Absent)

searchApi(keyword, targetPage) ==
    Request("search", targetPage, Absent, Absent, Absent, keyword)

RECURSIVE JoinIds(_)
JoinIds(ids) ==
    IF ids = <<>> THEN <<>>
    ELSE IF Len(ids) = 1 THEN <<ids[1]>>
    ELSE <<ids[1], ",">> \o JoinIds(Tail(ids))

FilterRequest(hits, tagsToUse, categoryToUse) ==
    Request("threads", 0, TagParam(tagsToUse), CategoryParam(categoryToUse),
            JoinIds(hits), Absent)

\* ------------------------------------------------------ the resolve functions
\* Each returns the part of a call record that the function decides: the
\* stage the call waits in and the request it has sent.
Plan(stage, kw, tagsToUse, categoryToUse, targetPage, req) ==
    [stage |-> stage, kw |-> kw, tagsToUse |-> tagsToUse,
     categoryToUse |-> categoryToUse, targetPage |-> targetPage,
     requests |-> <<req>>]

loadThreadsWithFilters(tagsToUse, categoryToUse, targetPage) ==
    Plan("list", <<>>, tagsToUse, categoryToUse, targetPage,
         ListRequest(tagsToUse, categoryToUse, targetPage))

\* doSearchWithFilters testing the keyword without trimming it
doSearchWithFilters_NoTrim(keyword, tagsToUse, categoryToUse, targetPage) ==
    IF keyword = <<>>
    THEN [loadThreadsWithFilters(tagsToUse, categoryToUse, targetPage)
            EXCEPT !.kw = keyword]
    ELSE Plan("search", keyword, tagsToUse, categoryToUse, targetPage,
              searchApi(keyword, targetPage))

doSearchWithFilters(keyword, tagsToUse, categoryToUse, targetPage) ==
    IF Trim(keyword) = <<>>
    THEN [loadThreadsWithFilters(tagsToUse, categoryToUse, targetPage)
            EXCEPT !.kw = keyword]
    ELSE Plan("search", keyword, tagsToUse, categoryToUse, targetPage,
              searchApi(keyword, targetPage))

\* doSearch and loadAllThreads read q, tags and category of the render that
\* created them; the caller passes those values.
doSearch(cq, ctags, ccategory, targetPage) ==
    doSearchWithFilters(cq, ctags, ccategory, targetPage)

loadAllThreads(cq, ctags, ccategory, targetPage) ==
    IF Trim(cq) # <<>>
    THEN doSearch(cq, ctags, ccategory, targetPage)
    ELSE Plan("list", cq, ctags, ccategory, targetPage,
              ListRequest(ctags, ccategory, targetPage))


\* ---------------------------------------------------------- call bookkeeping
\* A call is one invocation of a resolve function: what the function decided
\* (Plan), the handler that issued it, and what its first answer brought.
NewCall(origin, plan) ==
    [stage |-> plan.stage, kw |-> plan.kw, tagsToUse |-> plan.tagsToUse,
     categoryToUse |-> plan.categoryToUse, targetPage |-> plan.targetPage,
     requests |-> plan.requests, origin |-> origin,
     hits |-> <<>>, resTotal |-> 0, outcome |-> "pending"]

\* what is kept of a call once its last answer has been handled
Closed(outcome) ==
    [stage |-> "done", kw |-> <<>>, tagsToUse |-> <<>>,
     categoryToUse |-> <<>>, targetPage |-> 0, requests |-> <<>>,
     origin |-> "", hits |-> <<>>, resTotal |-> 0, outcome |-> outcome]

\* lastAnswer: which request was answered, how, with which items, and what
\* the handler made of it
NoAnswer == [stage |-> "none", kind |-> "", items |-> <<>>, outcome |-> ""]

Answer(stage, kind, items, outcome) ==
    [stage |-> stage, kind |-> kind, items |-> items, outcome |-> outcome]

Pending(i) == i \in 1..Len(calls) /\ calls[i].outcome = "pending"

Rendered == url # NoUrl /\ threads # NonArrayBody

CanIssue == Rendered /\ Len(calls) < MaxCalls

\* setLoading(true); setError(null); then the first request of the plan
Issue(origin, plan) ==
    /\ calls' = Append(calls, NewCall(origin, plan))
    /\ loading' = TRUE
    /\ error' = NoError
    /\ lastAnswer' = NoAnswer

\* a successful answer for page p reports a total that has such a page
Consistent(p, t) == p <= 1 \/ p <= PageCount(t)

\* a composer site as it is constructed: useState(false), useState(''), no tag.
\* TagInput is rendered with its page; the edit modal is mounted closed
\* (isOpen false), with the tags of its thread in saved and no save under way.
\* input is the text of the input element and caret the position of its
\* caret; key is the last event of the composer and arg what came with it
\* (the text of a paste, the tag of a remove button); was tells whether the
\* composer was drafting when that event came.
Sites == { "TagInput", "Modal" }

ComposerStart(site) ==
    [site |-> site, isTagging |-> FALSE, tagDraft |-> <<>>, tags |-> <<>>,
     input |-> <<>>, caret |-> 0, key |-> "", arg |-> <<>>, was |-> FALSE,
     isOpen |-> (site = "TagInput"), saved |-> <<>>, sent |-> <<>>,
     loading |-> FALSE, error |-> FALSE]

\* nothing rendered yet
NoSwatch == [name |-> <<"<none>">>]

\* a backend whose answers are not fixed in advance
NoBackend == [fixed |-> FALSE]

\* ThreadsListPage after construction, before its first effect has run
PageInit ==
    /\ q = <<>> /\ tags = <<>> /\ category = <<>>
    /\ threads = <<>> /\ total = NoTotal /\ page = 1
    /\ error = NoError /\ loading = FALSE /\ isSearching = FALSE
    /\ url = NoUrl
    /\ calls = <<>> /\ timers = <<>>
    /\ lastAnswer = NoAnswer

Init ==
    /\ PageInit
    /\ composer = ComposerStart("TagInput")
    /\ swatch = NoSwatch
    /\ backend = NoBackend

\* ------------------------------------------------------------ user actions
\* useEffect on [location.search, ...]: mount and every change of the query
NavigateEffect(u, cq, ctags, ccategory) ==
    LET searchParam == DecodeKeyword(u)
    IN  IF Trim(searchParam) # <<>>
        THEN doSearch(cq, ctags, ccategory, 1)
        ELSE loadAllThreads(cq, ctags, ccategory, 1)

NavigateTo(u) ==
    /\ u # url
    /\ threads # NonArrayBody
    /\ Len(calls) < MaxCalls
    /\ url' = u
    /\ tags' = DecodeTags(u)
    /\ category' = DecodeCategory(u)
    /\ q' = DecodeKeyword(u)
    /\ Issue("nav", NavigateEffect(u, q, tags, category))
    /\ UNCHANGED widgetVars
    /\ UNCHANGED << threads, total, page, isSearching, timers >>

Navigate(u) == u \in Urls /\ NavigateTo(u)

TypeKeyword(v) ==
    /\ Rendered
    /\ v \in Keywords /\ v # q
    /\ q' = v
    /\ lastAnswer' = NoAnswer
    /\ UNCHANGED widgetVars
    /\ UNCHANGED << tags, category, threads, total, page, error, loading,
                    isSearching, url, calls, timers >>

SubmitSearch(origin) ==
    /\ CanIssue
    /\ Issue(origin, doSearchWithFilters(q, tags, category, 1))
    /\ UNCHANGED widgetVars
    /\ UNCHANGED << q, tags, category, threads, total, page, isSearching,
                    url, timers >>

SearchEnter == SubmitSearch("enter")

SearchClick == ~loading /\ SubmitSearch("click")

ClearPlan == Plan("clear", <<>>, <<>>, <<>>, 1, Request("threads", 1, Absent, Absent, Absent, Absent))

handleClear ==
    /\ CanIssue
    /\ q # <<>> \/ Len(tags) > 0 \/ category # <<>>
    /\ q' = <<>> /\ tags' = <<>> /\ category' = <<>>
    /\ isSearching' = FALSE
    /\ Issue("clear", ClearPlan)
    /\ UNCHANGED widgetVars
    /\ UNCHANGED << threads, total, page, url, timers >>

CategoryPlan(cq, ctags, newCategory) ==
    IF Trim(cq) # <<>>
    THEN doSearchWithFilters(cq, ctags, newCategory, 1)
    ELSE loadThreadsWithFilters(ctags, newCategory, 1)

CategoryChange(newCategory) ==
    /\ CanIssue
    /\ newCategory \in CategoryIds \cup { <<>> } /\ newCategory # category
    /\ category' = newCategory
    /\ Issue("category", CategoryPlan(q, tags, newCategory))
    /\ UNCHANGED widgetVars
    /\ UNCHANGED << q, tags, threads, total, page, isSearching, url, timers >>

\* TagInput onChange: the page stores the new tags and arms a 100 ms timer
\* whose callback keeps the q and category of this render
TagsOnChange(newTags) ==
    /\ Rendered
    /\ tags' = newTags
    /\ IF Len(newTags) > 0 \/ Len(tags) > 0
       THEN /\ Len(timers) < MaxTimers
            /\ timers' = Append(timers, [q |-> q, newTags |-> newTags,
                                         category |-> category])
       ELSE timers' = timers
    /\ lastAnswer' = NoAnswer
    /\ UNCHANGED widgetVars
    /\ UNCHANGED << q, category, threads, total, page, error, loading,
                    isSearching, url, calls >>

TagAdd(t) ==
    /\ t \in TagNames /\ ~Includes(tags, t)
    /\ TagsOnChange(Append(tags, t))

TagRemove(t) ==
    /\ Includes(tags, t)
    /\ TagsOnChange(Without(tags, t))

TimerPlan(tm) ==
    IF Trim(tm.q) # <<>>
    THEN doSearchWithFilters(tm.q, tm.newTags, tm.category, 1)
    ELSE loadThreadsWithFilters(tm.newTags, tm.category, 1)

TimerFire ==
    /\ CanIssue
    /\ timers # <<>>
    /\ timers' = Tail(timers)
    /\ Issue("tagtimer", TimerPlan(Head(timers)))
    /\ UNCHANGED widgetVars
    /\ UNCHANGED << q, tags, category, threads, total, page, isSearching, url >>

\* click on a tag chip of a visible thread card
ChipClick(id) ==
    /\ CanIssue
    /\ Includes(threads, id)
    /\ LET tagName == ThreadTags(id)
           newTags == Append(tags, tagName)
       IN  /\ tagName # <<>> /\ ~Includes(tags, tagName)
           /\ tags' = newTags
           /\ Issue("chip", loadThreadsWithFilters(newTags, category, 1))
    /\ UNCHANGED widgetVars
    /\ UNCHANGED << q, category, threads, total, page, isSearching, url, timers >>

\* the pagination buttons resolving page 1 whatever page they are given
PagePlan_FirstPage(targetPage) ==
    IF isSearching THEN doSearch(q, tags, category, 1)
    ELSE IF Len(tags) > 0 \/ Trim(category) # <<>>
         THEN loadThreadsWithFilters(tags, category, 1)
         ELSE loadAllThreads(q, tags, category, 1)

PagePlan(targetPage) ==
    IF isSearching THEN doSearch(q, tags, category, targetPage)
    ELSE IF Len(tags) > 0 \/ Trim(category) # <<>>
         THEN loadThreadsWithFilters(tags, category, targetPage)
         ELSE loadAllThreads(q, tags, category, targetPage)

PreviousDisabled == loading \/ page <= 1

\* the Next button disabled while loading only
NextDisabled_IgnoresTotal == loading

NextDisabled == loading \/ (total # NoTotal /\ page >= PageCount(total))

Previous ==
    /\ CanIssue
    /\ ~PreviousDisabled
    /\ Issue("prev", PagePlan(page - 1))
    /\ UNCHANGED widgetVars
    /\ UNCHANGED << q, tags, category, threads, total, page, isSearching,
                    url, timers >>

NextPage ==
    /\ CanIssue
    /\ ~NextDisabled
    /\ Issue("next", PagePlan(page + 1))
    /\ UNCHANGED widgetVars
    /\ UNCHANGED << q, tags, category, threads, total, page, isSearching,
                    url, timers >>

DismissError ==
    /\ Rendered
    /\ error # NoError
    /\ error' = NoError
    /\ lastAnswer' = NoAnswer
    /\ UNCHANGED widgetVars
    /\ UNCHANGED << q, tags, category, threads, total, page, loading,
                    isSearching, url, calls, timers >>


\* ------------------------------------------------------- response handling
Finish(i, outcome) == [calls EXCEPT ![i] = Closed(outcome)]

\* catch (err) { setError(err.message) } finally { setLoading(false) }
Fail(i, kind, message) ==
    /\ calls' = Finish(i, "failed")
    /\ lastAnswer' = Answer(calls[i].stage, kind, <<>>, "failed")
    /\ error' = message
    /\ loading' = FALSE
    /\ UNCHANGED << threads, total, page, isSearching >>

\* setThreads; setTotal; setPage; finally { setLoading(false) }
Commit(i, kind, body, items, count, searching) ==
    /\ calls' = Finish(i, "committed")
    /\ lastAnswer' = Answer(calls[i].stage, kind, body, "committed")
    /\ threads' = items
    /\ total' = count
    /\ page' = calls[i].targetPage
    /\ isSearching' = searching
    /\ loading' = FALSE
    /\ UNCHANGED error

\* const results = data.results ?? data;
\* const totalThreads = data.count ?? (Array.isArray(results) ? results.length : null)
\* results appended to the visible list instead of replacing it
ListResults_Appended(kind, items) ==
    IF kind = "object" THEN NonArrayBody ELSE threads \o items

ListResults(kind, items) == IF kind = "object" THEN NonArrayBody ELSE items

ListTotal(kind, items, count) ==
    CASE kind = "paged" -> count
      [] kind = "array" -> Len(items)
      [] OTHER -> NoTotal

\* the answer of GET /api/threads/?page=.. for loadAllThreads,
\* loadThreadsWithFilters (stage "list") and handleClear (stage "clear")
ListArrive(i, kind, items, count) ==
    /\ threads # NonArrayBody
    /\ Pending(i) /\ calls[i].stage \in { "list", "clear" }
    /\ kind \in FailKinds \cup { "paged", "array", "object" }
    /\ [items |-> items, count |-> count] \in Answers
    /\ IF kind \in FailKinds
       THEN Fail(i, kind, ErrorMessage(kind))
       ELSE /\ kind = "object"
                 \/ Consistent(calls[i].targetPage, ListTotal(kind, items, count))
            /\ Commit(i, kind, IF kind = "object" THEN <<>> ELSE items,
                      ListResults(kind, items),
                      ListTotal(kind, items, count),
                      IF calls[i].stage = "list" THEN FALSE ELSE isSearching)
    /\ UNCHANGED widgetVars
    /\ UNCHANGED << q, tags, category, url, timers >>

NeedsFilter(c, hits) ==
    (Trim(c.categoryToUse) # <<>> \/ Len(c.tagsToUse) > 0) /\ Len(hits) > 0

\* res.total_threads || 0
SearchTotal(totalThreads) == IF totalThreads = 0 THEN 0 ELSE totalThreads

\* the answer of searchApi in doSearchWithFilters
SearchArrive(i, kind, hits, totalThreads) ==
    /\ threads # NonArrayBody
    /\ Pending(i) /\ calls[i].stage = "search"
    /\ kind \in FailKinds \cup { "ok", "object" }
    /\ [items |-> hits, count |-> totalThreads] \in Answers
    /\ IF kind # "ok"
       THEN Fail(i, kind, IF kind = "http" THEN <<"Search failed">>
                             ELSE ErrorMessage(kind))
       ELSE /\ Consistent(calls[i].targetPage, totalThreads)
            /\ IF NeedsFilter(calls[i], hits)
               THEN /\ calls' = [calls EXCEPT
                          ![i].stage = "filter",
                          ![i].hits = hits,
                          ![i].resTotal = totalThreads,
                          ![i].requests = Append(@,
                              FilterRequest(hits, calls[i].tagsToUse,
                                            calls[i].categoryToUse))]
                    /\ lastAnswer' = Answer("search", kind, hits, "filtering")
                    /\ UNCHANGED << threads, total, page, isSearching,
                                    loading, error >>
               ELSE /\ calls' = Finish(i, "committed")
                    /\ lastAnswer' = Answer("search", kind, hits, "committed")
                    /\ threads' = hits
                    /\ total' = SearchTotal(totalThreads)
                    /\ page' = calls[i].targetPage
                    /\ isSearching' = TRUE
                    /\ loading' = FALSE
                    /\ UNCHANGED error
    /\ UNCHANGED widgetVars
    /\ UNCHANGED << q, tags, category, url, timers >>

Elements(seq) == { seq[k] : k \in 1..Len(seq) }

\* what doSearchWithFilters shows after the answer of the second request:
\* the listing's results when filterRes.ok, the search hits otherwise
FilteredResults(kind, hits, items) == IF kind = "http" THEN hits ELSE items

\* the answer of GET /api/threads/?ids=.. in doSearchWithFilters
FilterArrive(i, kind, items) ==
    /\ threads # NonArrayBody
    /\ Pending(i) /\ calls[i].stage = "filter"
    /\ kind \in FailKinds \cup { "paged", "array", "object" }
    /\ items \in ItemLists /\ Elements(items) \subseteq Elements(calls[i].hits)
    /\ IF kind \in { "neterr", "badjson", "object" }
       THEN Fail(i, kind, ErrorMessage(kind))
       ELSE Commit(i, kind, IF kind = "http" THEN <<>> ELSE items,
                   FilteredResults(kind, calls[i].hits, items),
                      SearchTotal(calls[i].resTotal), TRUE)
    /\ UNCHANGED widgetVars
    /\ UNCHANGED << q, tags, category, url, timers >>

\* ------------------------------------------------------------ specification
ListKinds == FailKinds \cup { "paged", "array", "object" }

SearchKinds == FailKinds \cup { "ok", "object" }

Arrive ==
    \/ \E i \in 1..MaxCalls, kind \in ListKinds, a \in Answers :
          ListArrive(i, kind, a.items, a.count)
    \/ \E i \in 1..MaxCalls, kind \in SearchKinds, a \in Answers :
          SearchArrive(i, kind, a.items, a.count)
    \/ \E i \in 1..MaxCalls, kind \in ListKinds, items \in ItemLists :
          FilterArrive(i, kind, items)

\* The page driven through the search box, the category select, the tag
\* chips of the thread cards, Clear and the pagination buttons.
Next ==
    \/ \E u \in Urls : Navigate(u)
    \/ \E v \in Keywords : TypeKeyword(v)
    \/ SearchEnter
    \/ SearchClick
    \/ handleClear
    \/ \E c \in CategoryIds \cup { <<>> } : CategoryChange(c)
    \/ \E id \in ThreadIds : ChipClick(id)
    \/ Previous
    \/ NextPage
    \/ DismissError
    \/ Arrive

Spec == Init /\ [][Next]_vars

\* The page driven through the tag filter (TagInput) and the category
\* select; the keyword comes from the URL.
TagNext ==
    \/ \E u \in Urls : Navigate(u)
    \/ \E c \in CategoryIds \cup { <<>> } : CategoryChange(c)
    \/ \E t \in TagNames : TagAdd(t)
    \/ \E t \in TagNames : TagRemove(t)
    \/ TimerFire
    \/ Arrive

TagSpec == Init /\ [][TagNext]_vars

TypeOK ==
    /\ page \in Nat /\ total \in Nat \cup { NoTotal }
    /\ loading \in BOOLEAN /\ isSearching \in BOOLEAN
    /\ Len(calls) <= MaxCalls /\ Len(timers) <= MaxTimers
    /\ lastAnswer.outcome \in { "", "failed", "committed", "filtering" }


\* ----------------------------------------------------------- tag composers
\* keys pressed in a composer's input element
Keys == { "Enter", "Backspace", "Escape", "ArrowLeft", "#", "a", "A", " " }

IsSingleChar(key) == key \in { "#", "a", "A", " " }

\* /[a-zA-Z0-9_-]/.test(ch) on the keys above
ValidTagChar(ch) == ch \in { "a", "A" }

LowerChar(c) == IF c = "A" THEN "a" ELSE c

RECURSIVE toLowerCase(_)
toLowerCase(s) ==
    IF s = <<>> THEN <<>> ELSE <<LowerChar(Head(s))>> \o toLowerCase(Tail(s))

\* inputValue.replace(/[^a-zA-Z0-9_-]/g, '')
RECURSIVE ValidChars(_)
ValidChars(s) ==
    IF s = <<>> THEN <<>>
    ELSE (IF ValidTagChar(Head(s)) THEN <<Head(s)>> ELSE <<>>) \o ValidChars(Tail(s))

\* parts[parts.length - 1] of inputValue.split('#')
RECURSIVE LastPart(_)
LastPart(s) ==
    IF ~Includes(s, "#") THEN s ELSE LastPart(Tail(s))

\* prev.slice(0, -1)
DropLast(s) == IF s = <<>> THEN <<>> ELSE SubSeq(s, 1, Len(s) - 1)

\* TagInput, Enter while drafting
TagInputEnter_NoLowerCase(c) ==
    LET cleaned == Trim(c.tagDraft)
    IN  [c EXCEPT !.tags = IF cleaned # <<>> /\ ~Includes(c.tags, cleaned)
                           THEN Append(c.tags, cleaned) ELSE c.tags,
                  !.isTagging = FALSE, !.tagDraft = <<>>, !.input = <<>>,
                  !.caret = 0]

TagInputEnter(c) ==
    LET cleaned == toLowerCase(Trim(c.tagDraft))
    IN  [c EXCEPT !.tags = IF cleaned # <<>> /\ ~Includes(c.tags, cleaned)
                           THEN Append(c.tags, cleaned) ELSE c.tags,
                  !.isTagging = FALSE, !.tagDraft = <<>>, !.input = <<>>,
                  !.caret = 0]

\* TagInput.handleInputChange with the new text of the input element; the
\* caret of c is where the edit has left it, and an assignment to the value
\* of the element puts it at the end of the new text
handleInputChange_NoFilter(c, inputValue) ==
    IF c.isTagging
    THEN [c EXCEPT !.tagDraft = inputValue, !.input = inputValue]
    ELSE IF Includes(inputValue, "#")
         THEN [c EXCEPT !.isTagging = TRUE,
                        !.tagDraft = ValidChars(LastPart(inputValue)),
                        !.input = ValidChars(LastPart(inputValue)),
                        !.caret = Len(ValidChars(LastPart(inputValue)))]
         ELSE [c EXCEPT !.input = <<>>, !.caret = 0]

handleInputChange(c, inputValue) ==
    IF c.isTagging
    THEN [c EXCEPT !.tagDraft = ValidChars(inputValue),
                   !.input = ValidChars(inputValue),
                   !.caret = IF ValidChars(inputValue) # inputValue
                             THEN Len(ValidChars(inputValue)) ELSE c.caret]
    ELSE IF Includes(inputValue, "#")
         THEN [c EXCEPT !.isTagging = TRUE,
                        !.tagDraft = ValidChars(LastPart(inputValue)),
                        !.input = ValidChars(LastPart(inputValue)),
                        !.caret = Len(ValidChars(LastPart(inputValue)))]
         ELSE [c EXCEPT !.input = <<>>, !.caret = 0]

\* text with ins inserted at the caret
InsertAt(text, caret, ins) ==
    SubSeq(text, 1, caret) \o ins \o SubSeq(text, caret + 1, Len(text))

\* the text of the input element after the browser's default action for a
\* key: a character is inserted at the caret, Backspace deletes the
\* character before it
DefaultText(text, caret, key) ==
    IF IsSingleChar(key) THEN InsertAt(text, caret, << key >>)
    ELSE IF key = "Backspace" /\ caret > 0
    THEN SubSeq(text, 1, caret - 1) \o SubSeq(text, caret + 1, Len(text))
    ELSE text

\* the caret after the default action for a key
DefaultCaret(caret, key) ==
    IF IsSingleChar(key) THEN caret + 1
    ELSE IF key \in { "Backspace", "ArrowLeft" } /\ caret > 0 THEN caret - 1
    ELSE caret

\* TagInput.handleKeyDown, then the default action and onChange when the
\* handler has not prevented it
handleKeyDown(c, key) ==
    IF c.isTagging /\ key = "Enter" THEN TagInputEnter(c)
    ELSE IF c.isTagging /\ key = "Escape"
    THEN [c EXCEPT !.isTagging = FALSE, !.tagDraft = <<>>, !.input = <<>>,
                  !.caret = 0]
    ELSE IF c.isTagging /\ key = "Backspace" /\ c.tagDraft = <<>>
    THEN [c EXCEPT !.isTagging = FALSE, !.input = <<>>, !.caret = 0]
    ELSE IF c.isTagging /\ IsSingleChar(key) /\ ~ValidTagChar(key)
    THEN c
    ELSE IF DefaultText(c.input, c.caret, key) # c.input
    THEN handleInputChange([c EXCEPT !.caret = DefaultCaret(c.caret, key)],
                           DefaultText(c.input, c.caret, key))
    ELSE [c EXCEPT !.caret = DefaultCaret(c.caret, key)]

\* ThreadEditModal, Enter while drafting
ModalEnter(c) ==
    LET cleaned == toLowerCase(Trim(c.tagDraft))
    IN  [c EXCEPT !.tags = IF cleaned # <<>> /\ ~Includes(c.tags, cleaned)
                           THEN Append(c.tags, cleaned) ELSE c.tags,
                  !.isTagging = FALSE, !.tagDraft = <<>>]

\* ThreadEditModal tag input onKeyDown.  Its handlers never read the text of
\* the input element; a key they do not prevent has its default action on
\* that text.
ModalKeyDown_EscapeCommits(c, key) ==
    IF key = "#"
    THEN (IF c.isTagging THEN c
          ELSE [c EXCEPT !.isTagging = TRUE, !.tagDraft = <<>>])
    ELSE IF \/ ~c.isTagging
            \/ ~(IsSingleChar(key) \/ key \in { "Enter", "Backspace", "Escape" })
    THEN [c EXCEPT !.input = DefaultText(c.input, c.caret, key),
                   !.caret = DefaultCaret(c.caret, key)]
    ELSE IF key = "Enter" THEN ModalEnter(c)
    ELSE IF key = "Backspace" THEN [c EXCEPT !.tagDraft = DropLast(c.tagDraft)]
    ELSE IF key = "Escape" THEN ModalEnter(c)
    ELSE IF IsSingleChar(key) /\ ValidTagChar(key)
    THEN [c EXCEPT !.tagDraft = Append(c.tagDraft, key)]
    ELSE c

ModalKeyDown(c, key) ==
    IF key = "#"
    THEN (IF c.isTagging THEN c
          ELSE [c EXCEPT !.isTagging = TRUE, !.tagDraft = <<>>])
    ELSE IF \/ ~c.isTagging
            \/ ~(IsSingleChar(key) \/ key \in { "Enter", "Backspace", "Escape" })
    THEN [c EXCEPT !.input = DefaultText(c.input, c.caret, key),
                   !.caret = DefaultCaret(c.caret, key)]
    ELSE IF key = "Enter" THEN ModalEnter(c)
    ELSE IF key = "Backspace" THEN [c EXCEPT !.tagDraft = DropLast(c.tagDraft)]
    ELSE IF key = "Escape" THEN [c EXCEPT !.isTagging = FALSE, !.tagDraft = <<>>]
    ELSE IF IsSingleChar(key) /\ ValidTagChar(key)
    THEN [c EXCEPT !.tagDraft = Append(c.tagDraft, key)]
    ELSE c

\* the composer of a site after a key
Press(site, c, key) ==
    [(IF site = "TagInput" THEN handleKeyDown(c, key) ELSE ModalKeyDown(c, key))
        EXCEPT !.key = key, !.arg = <<>>, !.was = c.isTagging]

pageVars == << q, tags, category, threads, total, page, error, loading,
               isSearching, url, calls, timers, lastAnswer >>

PressKey(key) ==
    /\ composer.isOpen
    /\ composer' = Press(composer.site, composer, key)
    /\ Len(composer'.tagDraft) <= MaxDraft
    /\ Len(composer'.tags) <= MaxTags
    /\ Len(composer'.input) <= MaxDraft
    /\ UNCHANGED << pageVars, swatch, backend >>

\* texts pasted into a composer's input element
PasteTexts ==
    { <<"#">>, <<"#", "a">>, <<"a", "#", " ", "A">>, <<"#", "a", "#">>,
      <<"a", " ">>, <<" ", "#">>, <<" ">> }

\* a paste into the input element, at its caret: TagInput gets a
\* change event with the new text, the edit modal has no handler for it
PasteInto(site, c, text) ==
    [(IF site = "TagInput"
      THEN handleInputChange([c EXCEPT !.caret = c.caret + Len(text)],
                             InsertAt(c.input, c.caret, text))
      ELSE [c EXCEPT !.input = InsertAt(c.input, c.caret, text),
                     !.caret = c.caret + Len(text)])
        EXCEPT !.key = "Paste", !.arg = text, !.was = c.isTagging]

Paste(text) ==
    /\ composer.isOpen
    /\ composer' = PasteInto(composer.site, composer, text)
    /\ Len(composer'.tagDraft) <= MaxDraft
    /\ Len(composer'.input) <= MaxDraft
    /\ UNCHANGED << pageVars, swatch, backend >>

\* the input element loses focus: neither site handles the event
Blur ==
    /\ composer.isOpen
    /\ composer' = [composer EXCEPT !.key = "Blur", !.arg = <<>>,
                                     !.was = composer.isTagging]
    /\ UNCHANGED << pageVars, swatch, backend >>

\* the composer after the remove button of a committed tag
RemoveFrom_KeepsTag(c, t) ==
    [c EXCEPT !.key = "Remove", !.arg = t, !.was = c.isTagging]

RemoveFrom(c, t) ==
    [c EXCEPT !.tags = Without(c.tags, t), !.key = "Remove", !.arg = t,
              !.was = c.isTagging]

\* the remove button of a committed tag
removeTag(t) ==
    /\ composer.isOpen
    /\ Includes(composer.tags, t)
    /\ composer' = RemoveFrom(composer, t)
    /\ UNCHANGED << pageVars, swatch, backend >>

\* the page opens the edit modal: the effect on isOpen reloads the tags of
\* the thread; the input element is created empty
ModalOpen ==
    /\ composer.site = "Modal" /\ ~composer.isOpen
    /\ composer' = [composer EXCEPT !.isOpen = TRUE, !.tags = composer.saved,
                                     !.error = FALSE, !.input = <<>>, !.caret = 0,
                                     !.key = "Open", !.arg = <<>>,
                                     !.was = composer.isTagging]
    /\ UNCHANGED << pageVars, swatch, backend >>

\* ThreadEditModal.handleCancel; the modal renders nothing once closed
handleCancel ==
    /\ composer.site = "Modal" /\ composer.isOpen /\ ~composer.loading
    /\ composer' = [composer EXCEPT !.tags = composer.saved, !.error = FALSE,
                                     !.isOpen = FALSE, !.input = <<>>, !.caret = 0,
                                     !.key = "Cancel", !.arg = <<>>,
                                     !.was = composer.isTagging]
    /\ UNCHANGED << pageVars, swatch, backend >>

\* ThreadEditModal.handleSubmit up to its await
handleSubmit ==
    /\ composer.site = "Modal" /\ composer.isOpen /\ ~composer.loading
    /\ composer' = [composer EXCEPT !.loading = TRUE, !.error = FALSE,
                                     !.sent = composer.tags,
                                     !.key = "Save", !.arg = <<>>,
                                     !.was = composer.isTagging]
    /\ UNCHANGED << pageVars, swatch, backend >>

\* ThreadEditModal.handleSubmit after its await: the updated thread carries
\* the tags that were sent, and the modal is closed; or the update failed
UpdateArrive(ok) ==
    /\ composer.site = "Modal" /\ composer.loading
    /\ composer' = IF ok
                   THEN [composer EXCEPT !.saved = composer.sent,
                                         !.isOpen = FALSE, !.input = <<>>, !.caret = 0,
                                         !.loading = FALSE, !.sent = <<>>,
                                         !.key = "Saved", !.arg = <<>>,
                                     !.was = composer.isTagging]
                   ELSE [composer EXCEPT !.error = TRUE, !.loading = FALSE,
                                         !.sent = <<>>,
                                         !.key = "SaveFailed", !.arg = <<>>,
                                     !.was = composer.isTagging]
    /\ UNCHANGED << pageVars, swatch, backend >>

\* the edit modal once its page has opened it on a thread without tags
ModalOpened == [ComposerStart("Modal") EXCEPT !.isOpen = TRUE, !.key = "Open"]

\* a composer in use: TagInput on its page, or the opened edit modal
ComposerInit ==
    /\ PageInit
    /\ composer \in { ComposerStart("TagInput"), ModalOpened }
    /\ swatch = NoSwatch
    /\ backend = NoBackend

ComposerNext ==
    \/ \E key \in Keys : PressKey(key)
    \/ \E i \in 1..MaxTags : i <= Len(composer.tags) /\ removeTag(composer.tags[i])
    \/ \E text \in PasteTexts : Paste(text)
    \/ Blur

ComposerSpec == ComposerInit /\ [][ComposerNext]_vars

\* the edit modal from the time its page is rendered, through openings,
\* cancels and saves
ModalInit ==
    /\ PageInit
    /\ composer = ComposerStart("Modal")
    /\ swatch = NoSwatch
    /\ backend = NoBackend

ModalNext ==
    \/ \E key \in Keys : PressKey(key)
    \/ \E i \in 1..MaxTags : i <= Len(composer.tags) /\ removeTag(composer.tags[i])
    \/ Blur
    \/ ModalOpen
    \/ handleCancel
    \/ handleSubmit
    \/ \E ok \in BOOLEAN : UpdateArrive(ok)

ModalSpec == ModalInit /\ [][ModalNext]_vars

\* what a composer shows: its state, its buffer and its committed tags
ComposerView(c) == [isTagging |-> c.isTagging, tagDraft |-> c.tagDraft, tags |-> c.tags]

\* -------------------------------------------------------------- deep links
\* query strings a link or the address bar can hold
DeepLinks ==
    { Url(qv, tagv, catv, pagev) :
        qv \in { Absent, <<"e">> },
        tagv \in { Absent, encodeURIComponent(<<"a">>), encodeURIComponent(<<"A">>),
                   encodeURIComponent(<<"a", ",", "a">>),
                   encodeURIComponent(<<"a", ",", " ", ",", "b", ",">>) },
        catv \in { Absent, <<"3">> },
        pagev \in { Absent, <<"2">>, <<"x">> } }

\* the page is mounted at a deep link
MountAt(u) == url = NoUrl /\ NavigateTo(u)

\* The page opened at a deep link, and the answer of its first request.
UrlNext ==
    \/ \E u \in DeepLinks : MountAt(u)
    \/ \E i \in 1..MaxCalls, kind \in ListKinds, a \in Answers :
          ListArrive(i, kind, a.items, a.count)

UrlSpec == Init /\ [][UrlNext]_vars

\* ------------------------------------------------------------------ colors
\* A 32-bit hash is held as two 16-bit halves.
Half == 65536

\* name.charCodeAt(i) for the characters of the names below
charCodeAt(c) == IF c = "a" THEN 97 ELSE IF c = "z" THEN 122 ELSE 65

NameChars == { "a", "z" }

RECURSIVE NamesOfLen(_)
NamesOfLen(n) ==
    IF n = 0 THEN { <<>> }
    ELSE { Append(nm, c) : nm \in NamesOfLen(n - 1), c \in NameChars }

Names == UNION { NamesOfLen(n) : n \in 0..MaxNameLen }

\* (hash * 33 + code) >>> 0
HashStep_Times33(h, code) ==
    LET lo == h.lo * 33 + code
        hi == h.hi * 33 + lo \div Half
    IN  [hi |-> hi % Half, lo |-> lo % Half]

\* (hash * 31 + code) >>> 0: the product and sum are exact in a double, and
\* >>> 0 keeps the low 32 bits
HashStep(h, code) ==
    LET lo == h.lo * 31 + code
        hi == h.hi * 31 + lo \div Half
    IN  [hi |-> hi % Half, lo |-> lo % Half]

\* the loop over the characters of the name, from hash = 0
RECURSIVE HashFrom(_, _)
HashFrom(h, name) ==
    IF name = <<>> THEN h
    ELSE HashFrom(HashStep(h, charCodeAt(Head(name))), Tail(name))

HashOf(name) == HashFrom([hi |-> 0, lo |-> 0], name)

\* hash % n
HashMod(h, n) == ((h.hi % n) * (Half % n) + h.lo) % n

tagColors ==
    << "#0d6efd", "#198754", "#6f42c1", "#d63384",
       "#fd7e14", "#20c997", "#6c757d", "#6610f2" >>

ModalTagColors ==
    << "#0d6efd", "#198754", "#6f42c1", "#d63384",
       "#fd7e14", "#20c997", "#6c757d", "#6610f2" >>

categoryColors ==
    << "#0d6efd", "#198754", "#6f42c1", "#d63384", "#fd7e14", "#20c997",
       "#6c757d", "#6610f2", "#dc3545", "#ffc107", "#17a2b8", "#28a745" >>

DetailCategoryColors ==
    << "#0d6efd", "#198754", "#6f42c1", "#d63384", "#fd7e14", "#20c997",
       "#6c757d", "#6610f2", "#dc3545", "#ffc107", "#17a2b8", "#28a745" >>

CreateCategoryColors ==
    << "#0d6efd", "#198754", "#6f42c1", "#d63384", "#fd7e14", "#20c997",
       "#6c757d", "#6610f2", "#dc3545", "#ffc107", "#17a2b8", "#28a745" >>

\* TagInput
colorForTag(name) == tagColors[HashMod(HashOf(name), Len(tagColors)) + 1]

\* ThreadEditModal
ModalColorForTag(name) ==
    ModalTagColors[HashMod(HashOf(name), Len(ModalTagColors)) + 1]

\* thread list page
getCategoryColor(name) ==
    categoryColors[HashMod(HashOf(name), Len(categoryColors)) + 1]

\* thread detail page
DetailGetCategoryColor(name) ==
    DetailCategoryColors[HashMod(HashOf(name), Len(DetailCategoryColors)) + 1]

\* thread create page
CreateGetCategoryColor(name) ==
    CreateCategoryColors[HashMod(HashOf(name), Len(CreateCategoryColors)) + 1]

\* a name is rendered as a tag pill by both composers and as a category
\* badge by the three pages
Paint(name) ==
    /\ swatch' = [name |-> name,
                  tagInput |-> colorForTag(name),
                  modal |-> ModalColorForTag(name),
                  list |-> getCategoryColor(name),
                  detail |-> DetailGetCategoryColor(name),
                  create |-> CreateGetCategoryColor(name)]
    /\ UNCHANGED << pageVars, composer, backend >>

ColorNext == \E name \in Names : Paint(name)

ColorSpec == Init /\ [][ColorNext]_vars

\* The fold of the color contract: h := (h * 31 + code) mod 2^32 from h = 0,
\* on numbers written as four base-256 digits, lowest first.
RECURSIVE FoldDigits(_, _, _)
FoldDigits(digits, carry, k) ==
    IF k > 4 THEN <<>>
    ELSE LET v == digits[k] * 31 + carry
         IN  <<v % 256>> \o FoldDigits(digits, v \div 256, k + 1)

RECURSIVE ContractHash(_, _)
ContractHash(digits, name) ==
    IF name = <<>> THEN digits
    ELSE ContractHash(FoldDigits(digits, charCodeAt(Head(name)), 1), Tail(name))

\* h mod n for h written as four base-256 digits
RECURSIVE DigitsMod(_, _, _)
DigitsMod(digits, n, k) ==
    IF k > 4 THEN 0 ELSE (DigitsMod(digits, n, k + 1) * 256 + digits[k]) % n

\* palette[h mod paletteSize] of the color contract
ContractColor(palette, name) ==
    palette[DigitsMod(ContractHash(<<0, 0, 0, 0>>, name), Len(palette), 1) + 1]

Elems(seq) == { seq[i] : i \in 1..Len(seq) }

\* ------------------------------------------------- resolving the same state
\* A backend whose data does not change: one answer for the listing request,
\* one for the search request and one for the intersection request of the
\* state that is resolved again and again.
Backends ==
    { [fixed |-> TRUE,
       list |-> [kind |-> lk, items |-> la.items, count |-> la.count],
       search |-> [kind |-> sk, items |-> sa.items, count |-> sa.count],
       filter |-> [kind |-> fk, items |-> fi]] :
        lk \in ListKinds, la \in Answers, sk \in SearchKinds, sa \in Answers,
        fk \in ListKinds, fi \in ItemLists }

TwiceInit ==
    /\ PageInit
    /\ composer = ComposerStart("TagInput")
    /\ swatch = NoSwatch
    /\ backend \in Backends

Settled == \A i \in 1..Len(calls) : ~Pending(i)

\* the page is opened
Open(u) == url = NoUrl /\ Navigate(u)

\* Enter in the search box once the previous resolve has run to its end
Resubmit == Settled /\ SearchEnter

FixedListArrive ==
    \E i \in 1..MaxCalls :
        ListArrive(i, backend.list.kind, backend.list.items, backend.list.count)

FixedSearchArrive ==
    \E i \in 1..MaxCalls :
        SearchArrive(i, backend.search.kind, backend.search.items,
                     backend.search.count)

FixedFilterArrive ==
    \E i \in 1..MaxCalls :
        FilterArrive(i, backend.filter.kind, backend.filter.items)

\* The same state resolved again, one resolve after the other, against a
\* backend that does not change.
TwiceNext ==
    \/ \E u \in Urls : Open(u)
    \/ Resubmit
    \/ FixedListArrive
    \/ FixedSearchArrive
    \/ FixedFilterArrive

TwiceSpec == TwiceInit /\ [][TwiceNext]_vars

\* ------------------------------------------------------------- properties
\* a step that issues a resolve, and the call it adds
IssueStep == Len(calls') = Len(calls) + 1

Issued == calls'[Len(calls')]

VisibleUnchanged == threads' = threads /\ total' = total /\ page' = page

Committed(j) == j \in 1..Len(calls) /\ calls[j].outcome = "committed"

\* the step handles the last answer of call i
Settles(i) == Pending(i) /\ calls'[i].outcome # "pending"

\* C1: once the answer of a later-issued request has been committed, the
\* answer of an earlier-issued request that arrives afterwards leaves the
\* visible threads, total and page as they are.
C1_LateAnswerDropped ==
    [][\A i \in 1..Len(calls) :
          (Settles(i) /\ \E j \in (i + 1)..Len(calls) : Committed(j))
              => VisibleUnchanged]_vars

\* C2: a failure of an earlier-issued request that arrives after a
\* later-issued request has succeeded sets no error and leaves the visible
\* results of the later request as they are.
C2_LateFailureIgnored ==
    [][\A i \in 1..Len(calls) :
          (Settles(i) /\ calls'[i].outcome = "failed"
             /\ \E j \in (i + 1)..Len(calls) : Committed(j))
              => (error' = error /\ VisibleUnchanged)]_vars

\* C3: when a request fails (transport failure, non-2xx answer, unparsable
\* body or a body of an unexpected shape) an error message is set and the
\* visible threads, total and page keep their values.
FailureKinds == FailKinds \cup { "object" }

C3_FailureKeepsResults ==
    [][(calls' # calls /\ lastAnswer'.kind \in FailureKinds)
          => (error' # NoError /\ VisibleUnchanged)]_vars


\* C4: a resolve for a keyword that is empty after trimming issues exactly
\* one request, a listing of the threads endpoint carrying the target page,
\* the tags joined by commas when there are tags, and the category when one
\* is set, and no search request; and every handler of the page other than
\* the navigation effect (the subject of C10) resolves the keyword, tags and
\* category the page holds after the action.
C4_EmptyKeywordLists ==
    [][IssueStep =>
          LET c == Issued
              r == c.requests[1]
          IN  /\ Trim(c.kw) = <<>> =>
                    /\ Len(c.requests) = 1
                    /\ r.endpoint = "threads"
                    /\ r.page = c.targetPage
                    /\ r.tag = (IF c.tagsToUse = <<>> THEN Absent
                                ELSE Join(c.tagsToUse, <<",">>))
                    /\ r.category = (IF Trim(c.categoryToUse) = <<>> THEN Absent
                                     ELSE Trim(c.categoryToUse))
                    /\ r.ids = Absent /\ r.q = Absent
              /\ (Trim(q') = <<>> /\ c.origin # "nav") =>
                    /\ Trim(c.kw) = <<>>
                    /\ c.tagsToUse = tags'
                    /\ c.categoryToUse = category']_vars

\* a listing is in flight for a keyword of blanks, with a tag and a category
C4_Witness ==
    \E i \in 1..Len(calls) :
        /\ Pending(i) /\ calls[i].kw = <<" ">>
        /\ calls[i].tagsToUse # <<>> /\ calls[i].categoryToUse # <<>>
        /\ calls[i].requests[1].endpoint = "threads"

\* C5: with a non-empty keyword the second (intersection) listing is issued
\* exactly when the search returned ids and a tag or a category is set, it is
\* restricted to those ids plus the tag and category, and the committed items
\* are its ordered output; otherwise the raw search hits are committed.
C5_IntersectionCommitted ==
    /\ \A i \in 1..Len(calls) :
          (Pending(i) /\ calls[i].stage = "filter") =>
             /\ calls[i].hits # <<>>
             /\ calls[i].tagsToUse # <<>> \/ Trim(calls[i].categoryToUse) # <<>>
             /\ Len(calls[i].requests) = 2
             /\ calls[i].requests[2].ids = JoinIds(calls[i].hits)
    /\ (lastAnswer.stage = "search" /\ lastAnswer.outcome = "committed")
          => threads = lastAnswer.items
    /\ (lastAnswer.stage = "filter" /\ lastAnswer.outcome = "committed")
          => (lastAnswer.kind \in { "paged", "array" }
              /\ threads = lastAnswer.items)

\* C6: whenever the keyword is non-empty, a resolve starts with a relevance
\* search for that keyword, whichever user action triggered it (navigation
\* is the subject of C10 and left out here).
C6_KeywordAlwaysSearched ==
    [][(IssueStep /\ Trim(q') # <<>> /\ Issued.origin # "nav")
          => (Issued.requests[1].endpoint = "search"
              /\ Issued.requests[1].q = q')]_vars

C8_RoundTrip == DecodeState(Encode(FilterState)) = FilterState

\* C9: after every user action on the page that starts a resolve (tag added
\* or removed, category set, search submitted, page changed, clear) the query
\* string in the address bar is the encoding of the state the page then
\* holds, with the fields at their defaults omitted.
C9_UrlFollowsEdits ==
    [][(IssueStep /\ Issued.origin # "nav") => url' = Encode(FilterState')]_vars

\* C10: the request issued on a navigation is the first request of a resolve
\* of the state decoded from the query string navigated to.
C10_NavigationResolvesUrl ==
    [][\A u \in Urls :
          (url # u /\ url' = u)
             => Issued.requests[1] =
                   doSearchWithFilters(DecodeKeyword(u), DecodeTags(u),
                                       DecodeCategory(u), 1).requests[1]]_vars


\* C12: Enter while drafting, at both composer sites: with c the trimmed,
\* lowercased buffer, the committed tags become the old tags with c appended
\* when c is non-empty and not yet among them, and stay as they are
\* otherwise; the buffer is cleared and the composer is idle.
C12_EnterCommitsTag ==
    [][(composer' # composer /\ composer'.key = "Enter" /\ composer.isTagging)
          => LET c == toLowerCase(Trim(composer.tagDraft))
             IN  /\ composer'.tags =
                        (IF c # <<>> /\ ~Includes(composer.tags, c)
                         THEN Append(composer.tags, c) ELSE composer.tags)
                 /\ composer'.tagDraft = <<>>
                 /\ ~composer'.isTagging]_vars

\* '#A' Enter after '#a' Enter in TagInput: one tag, "a"
C12_Witness ==
    /\ composer.site = "TagInput" /\ composer.key = "Enter" /\ composer.was
    /\ composer.tags = << <<"a">> >> /\ ~composer.isTagging

\* C14: Backspace on an empty drafting buffer leaves the composer in the
\* same state, with the same buffer and the same tags, at TagInput and at
\* the edit modal.
C14_BackspaceSamePolicy ==
    (composer.isTagging /\ composer.tagDraft = <<>>)
       => ComposerView(Press("TagInput", composer, "Backspace"))
            = ComposerView(Press("Modal", composer, "Backspace"))


\* C11: decoding a query string fills the defaults: no q gives the empty
\* keyword, no tag gives no tags, no category gives no category, and no page
\* or a malformed page gives page 1; a well-formed page in the query string
\* becomes the page of the state.
C11_DecodeDefaultsAndPage ==
    url # NoUrl =>
        /\ url.q = Absent => FilterState.keyword = <<>>
        /\ url.tag = Absent => FilterState.tags = <<>>
        /\ url.category = Absent => FilterState.category = <<>>
        /\ url.page \in { Absent, <<"x">> } => FilterState.page = 1
        /\ url.page = <<"2">> => FilterState.page = 2

\* C13: the tags of the state hold no entry twice and only lowercase
\* entries, whichever path added them.
C13_TagsDistinctLowercase ==
    /\ \A i, j \in 1..Len(tags) : tags[i] = tags[j] => i = j
    /\ \A i \in 1..Len(tags) : tags[i] = toLowerCase(tags[i])

\* C20: decoding the tag parameter splits on commas, trims each entry and
\* drops the empty entries: "a, ,b," gives the tags a and b, and no decoded
\* tag is the empty string.
C20_TagParamDropsEmpty ==
    url # NoUrl =>
        /\ \A i \in 1..Len(tags) : tags[i] # <<>>
        /\ url.tag = encodeURIComponent(<<"a", ",", " ", ",", "b", ",">>)
              => tags = << <<"a">>, <<"b">> >>


\* C15: the color of a name is palette[h mod paletteSize] for the h obtained
\* by folding the characters of the name from 0 with h := (h*31 + code) mod
\* 2^32; the empty name gets palette[0], and every color is in the palette.
C15_ColorIsFoldModPalette ==
    swatch # NoSwatch =>
        /\ swatch.tagInput = ContractColor(tagColors, swatch.name)
        /\ swatch.list = ContractColor(categoryColors, swatch.name)
        /\ swatch.tagInput \in Elems(tagColors)
        /\ swatch.list \in Elems(categoryColors)
        /\ swatch.name = <<>> =>
              (swatch.tagInput = tagColors[1] /\ swatch.list = categoryColors[1])

\* a name long enough for the product to pass 2^32 has been given its color
C15_Witness == swatch # NoSwatch /\ Len(swatch.name) = MaxNameLen

\* C16: every copy of the color function gives the same name the same
\* color: colorForTag of TagInput and of the edit modal, getCategoryColor of
\* the list, detail and create pages.
C16_CopiesAgree ==
    swatch # NoSwatch =>
        /\ swatch.modal = swatch.tagInput
        /\ swatch.list = swatch.tagInput
        /\ swatch.detail = swatch.tagInput
        /\ swatch.create = swatch.tagInput


\* C18: the request issued 100 ms after a tag change carries the keyword,
\* the tags and the category the page holds when it is issued, also when the
\* category was changed during those 100 ms.
C18_TimerRequestIsCurrent ==
    [][(IssueStep /\ Issued.origin = "tagtimer")
          => /\ Issued.tagsToUse = tags'
             /\ Issued.categoryToUse = category'
             /\ Issued.requests[1] =
                   doSearchWithFilters(q', tags', category',
                                       Issued.targetPage).requests[1]]_vars

\* C19: when the second (intersection) listing request of a keyword search
\* is answered with a non-2xx status, the resolve fails: the error is set
\* and the visible results stay; the search hits are not committed.
C19_FilterFailureIsFailure ==
    [][(calls' # calls /\ lastAnswer'.stage = "filter" /\ lastAnswer'.kind = "http")
          => (error' # NoError /\ VisibleUnchanged)]_vars


\* C17: a state resolved a second time, with the backend's answers unchanged
\* and no other request in between, commits what the first resolve
\* committed: the same items in the same order, the same total, the same page.
C17_ResolveTwiceSameResult ==
    [][\A i \in 3..Len(calls) :
          (Settles(i) /\ calls'[i].outcome = "committed")
             => (calls[i - 1].outcome = "committed" /\ VisibleUnchanged)]_vars

\* a keyword search with its intersection request has been committed twice
C17_Witness ==
    /\ Len(calls) = 3
    /\ calls[2].outcome = "committed" /\ calls[3].outcome = "committed"
    /\ lastAnswer.stage = "filter" /\ threads # <<>>

\* the text a composer event brings into the input element: the character of
\* a key, the text of a paste
Brought(c) == IF c.key = "Paste" THEN c.arg ELSE << c.key >>

\* C21: in Idle, typing '#' or pasting a text that contains '#' puts the
\* composer in Drafting with, as its buffer, the segment after the last '#'
\* without the characters outside [a-zA-Z0-9_-]; the committed tags stay as
\* they are.  At both composer sites.
C21_HashStartsDraft ==
    [][(/\ composer' # composer
        /\ ~composer.isTagging
        /\ composer'.key \in { "#", "Paste" }
        /\ Includes(Brought(composer'), "#"))
          => /\ composer'.isTagging
             /\ composer'.tagDraft = ValidChars(LastPart(Brought(composer')))
             /\ composer'.tags = composer.tags]_vars

\* C22: in Idle, a typed character other than '#' is discarded, at both
\* composer sites: after it the text field is empty, the buffer is empty,
\* the composer is Idle and the committed tags are as before.
C22_IdleCharDiscarded ==
    [][(/\ composer' # composer
        /\ ~composer.isTagging
        /\ IsSingleChar(composer'.key) /\ composer'.key # "#")
          => /\ composer'.input = <<>>
             /\ composer'.tagDraft = <<>>
             /\ ~composer'.isTagging
             /\ composer'.tags = composer.tags]_vars

\* C23: the draft buffer of a composer holds only characters of
\* [a-zA-Z0-9_-] ('a' and 'A' among the characters typed here) in every
\* reachable state; in Drafting, a typed character or a pasted text with a
\* character outside the class (a further '#' included) keeps the composer
\* in Drafting and raises no error, and when it brings no character of the
\* class the buffer is as before.
C23_BufferStaysValid ==
    /\ [](\A i \in 1..Len(composer.tagDraft) :
             composer.tagDraft[i] \in { "a", "A" })
    /\ [][LET Text == Brought(composer')
              Outside == { i \in 1..Len(Text) : Text[i] \notin { "a", "A" } }
          IN  (/\ composer' # composer
               /\ composer.isTagging
               /\ (IsSingleChar(composer'.key) \/ composer'.key = "Paste")
               /\ Outside # {})
                 => /\ composer'.isTagging
                    /\ composer'.error = composer.error
                    /\ (Outside = 1..Len(Text))
                          => composer'.tagDraft = composer.tagDraft]_vars

\* 'a ' was pasted into the draft 'a' of TagInput: the buffer is 'aa'
C23_Witness ==
    /\ composer.site = "TagInput" /\ composer.isTagging
    /\ composer.key = "Paste" /\ composer.arg = <<"a", " ">>
    /\ composer.tagDraft = <<"a", "a">>

\* C24: Backspace in Drafting with a non-empty buffer removes the last
\* character of the buffer and nothing else, keeps the composer in Drafting
\* and leaves the committed tags as they are, at both composer sites.
C24_BackspaceDropsLast ==
    [][(/\ composer' # composer
        /\ composer.isTagging /\ composer.tagDraft # <<>>
        /\ composer'.key = "Backspace")
          => /\ composer'.tagDraft
                  = SubSeq(composer.tagDraft, 1, Len(composer.tagDraft) - 1)
             /\ composer'.isTagging
             /\ composer'.tags = composer.tags]_vars

\* C25: Escape in Drafting, whatever the buffer holds, commits nothing: the
\* committed tags are as before, the buffer is empty and the composer is
\* Idle.  At both composer sites.
C25_EscapeDiscards ==
    [][(/\ composer' # composer
        /\ composer.isTagging
        /\ composer'.key = "Escape")
          => /\ composer'.tags = composer.tags
             /\ composer'.tagDraft = <<>>
             /\ ~composer'.isTagging]_vars

\* Escape at the edit modal after a draft had been typed next to a
\* committed tag
C25_Witness ==
    /\ composer.site = "Modal" /\ composer.key = "Escape" /\ composer.was
    /\ composer.tags = << <<"a">> >>
    /\ composer.tagDraft = <<>> /\ ~composer.isTagging

\* C26: the remove button of a committed tag works in Idle and in Drafting
\* alike; it takes exactly that tag out of the committed tags and leaves the
\* state of the composer and its buffer as they are.
C26_RemoveOnlyRemoves ==
    /\ []((composer.isOpen /\ composer.tags # <<>>)
            => ENABLED removeTag(composer.tags[1]))
    /\ [][(composer' # composer /\ composer'.key = "Remove")
            => /\ Includes(composer.tags, composer'.arg)
               /\ composer'.tags
                    = SelectSeq(composer.tags, LAMBDA x : x # composer'.arg)
               /\ composer'.isTagging = composer.isTagging
               /\ composer'.tagDraft = composer.tagDraft]_vars

\* the first of two committed tags was removed while a draft was being typed
C26_Witness ==
    /\ composer.key = "Remove" /\ composer.arg = <<"a">>
    /\ composer.tags = << <<"a", "a">> >>
    /\ composer.isTagging /\ composer.tagDraft = <<"A">>

\* C27: a draft exists only while its composer is Drafting: an Idle composer
\* has an empty buffer, and after Enter, after Escape, after the input has
\* lost focus and after the edit modal has been closed by Cancel or by a
\* successful Save the composer is Idle with an empty buffer.
C27_DraftOnlyWhileDrafting ==
    /\ [](~composer.isTagging => composer.tagDraft = <<>>)
    /\ [][(/\ composer' # composer
            /\ composer'.key \in { "Enter", "Escape", "Blur", "Cancel", "Saved" })
              => (~composer'.isTagging /\ composer'.tagDraft = <<>>)]_vars

\* C28: the loading flag of the thread list page is true whenever a
\* discovery request is in flight; with two overlapping requests it stays
\* true until the last of them has completed.
C28_LoadingWhileInFlight ==
    (\E i \in 1..Len(calls) : Pending(i)) => loading

\* C29: a request issued because the keyword, the tags or the category
\* changed (search submit, category select, tag added or removed, tag chip,
\* Clear, URL navigation) asks for page 1; Previous asks for the visible
\* page minus one and Next for the visible page plus one.
C29_FilterChangeAsksFirstPage ==
    [][IssueStep
         => LET asked == IF Issued.origin = "prev" THEN page - 1
                         ELSE IF Issued.origin = "next" THEN page + 1
                         ELSE 1
            IN  /\ Issued.targetPage = asked
                /\ Len(Issued.requests) = 1
                /\ Issued.requests[1].page = asked]_vars

\* Next has asked for page 2 of a keyword search from its page 1
C29_Witness ==
    \E i \in 1..Len(calls) :
        /\ Pending(i) /\ calls[i].origin = "next" /\ calls[i].stage = "search"
        /\ calls[i].requests[1].page = 2 /\ page = 1

\* C30: when a keyword search narrowed by the second, filtering request is
\* committed, the visible total is the total of the filtered result, so that
\* the pages offered by Previous and Next are those of the filtered result
\* and not those of the unfiltered search.
C30_TotalIsFilteredTotal ==
    [][(/\ calls' # calls
        /\ lastAnswer'.stage = "filter" /\ lastAnswer'.outcome = "committed"
        /\ lastAnswer'.kind \in { "paged", "array" })
          => /\ threads' = lastAnswer'.items
             /\ total' = Len(lastAnswer'.items)]_vars
====
